---- MODULE Spec2Model ----
(***************************************************************************)
(* easyurls.py: expansion of <name[:pattern]> placeholders into named      *)
(* groups of a regular expression.                                         *)
(*                                                                         *)
(* A Python string is a sequence of one-character strings.  A dict is a    *)
(* function whose domain is its key set.  A dict object lives in `dicts`   *)
(* under an identity, and an instance holds the identity of its table, so  *)
(* that two instances holding the same dict object see each other's        *)
(* writes, as in Python.                                                   *)
(***************************************************************************)
EXTENDS Naturals, Sequences, FiniteSets, TLC

\* ------------------------------------------------------------------ bounds

\* longest template, counted in pieces (see Pieces)
MaxParts == 5
\* longest template of the configuration runs, counted in pieces (see CfgPieces)
MaxCfgParts == 3

\* ----------------------------------------------------------------- strings

s_tag == <<"t", "a", "g">>
s_mon == <<"m", "o", "n">>
s_x == <<"x">>

Lower ==
  {"a", "b", "c", "d", "e", "f", "g", "h", "i", "j", "k", "l", "m",
   "n", "o", "p", "q", "r", "s", "t", "u", "v", "w", "x", "y", "z"}
Upper ==
  {"A", "B", "C", "D", "E", "F", "G", "H", "I", "J", "K", "L", "M",
   "N", "O", "P", "Q", "R", "S", "T", "U", "V", "W", "X", "Y", "Z"}
Digit == {"0", "1", "2", "3", "4", "5", "6", "7", "8", "9"}

\* \w of the re module
IsWord(c) == c \in Lower \cup Upper \cup Digit \cup {"_"}

\* r[:1]
First1(r) == IF Len(r) = 0 THEN <<>> ELSE <<r[1]>>

\* r[-1:]
Last1(r) == IF Len(r) = 0 THEN <<>> ELSE <<r[Len(r)]>>

\* ------------------------------------------------------------------- dicts

\* d.get(k, dflt)
Get(d, k, dflt) == IF k \in DOMAIN d THEN d[k] ELSE dflt

\* d[k] = v
SetItem(d, k, v) == [x \in DOMAIN d \cup {k} |-> IF x = k THEN v ELSE d[x]]

\* {}
NoDict == [x \in {} |-> <<>>]

PATTERNS ==
  (<<"d", "a", "y">> :> <<"\\", "d", "{", "1", ",", "2", "}">>) @@
  (<<"i", "d">> :> <<"\\", "d", "+">>) @@
  (<<"m", "o", "n", "t", "h">> :> <<"\\", "d", "{", "1", ",", "2", "}">>) @@
  (<<"s", "l", "u", "g">> :> <<"[", "\\", "w", "-", "]", "+">>) @@
  (s_tag :> <<"\\", "w", "+">>) @@
  (<<"y", "e", "a", "r">> :> <<"\\", "d", "{", "4", "}">>) @@
  (s_mon :> <<"[", "a", "-", "z", "]", "{", "3", "}">>) @@
  (<<"n">> :> <<"\\", "d", "+">>)

\* the default of __init__'s `default`
DefaultFragment == <<"\\", "d", "+">>

\* ------------------------------------------------------------ VARIABLE.sub

\* the first index >= i of s that holds no word character (Len(s)+1 if none)
RECURSIVE WordEnd(_, _)
WordEnd(s, i) ==
  IF i > Len(s) \/ ~IsWord(s[i]) THEN i ELSE WordEnd(s, i + 1)

\* the first index >= i of s that holds '>' (Len(s)+1 if none)
RECURSIVE CloseAt(_, _)
CloseAt(s, i) ==
  IF i > Len(s) \/ s[i] = ">" THEN i ELSE CloseAt(s, i + 1)

NoMatch == [ok |-> FALSE, name |-> <<>>, has_pattern |-> FALSE,
            pattern |-> <<>>, end |-> 0]

\* VARIABLE.match(s, i): <(?P<name>\w+)(?::?(?P<pattern>[^>]+))?>
\* name is the longest run of word characters; when it is not followed by
\* '>', the group takes everything up to the next '>', less one leading
\* ':' if something is left after it.
Match(s, i) ==
  IF i > Len(s) \/ s[i] # "<" THEN NoMatch
  ELSE LET j == WordEnd(s, i + 1)
           g == CloseAt(s, j)
       IN IF j = i + 1 \/ g > Len(s) THEN NoMatch
          ELSE IF g = j
               THEN [ok |-> TRUE, name |-> SubSeq(s, i + 1, j - 1),
                     has_pattern |-> FALSE, pattern |-> <<>>, end |-> g]
          ELSE IF s[j] = ":" /\ g > j + 1
               THEN [ok |-> TRUE, name |-> SubSeq(s, i + 1, j - 1),
                     has_pattern |-> TRUE, pattern |-> SubSeq(s, j + 1, g - 1),
                     end |-> g]
          ELSE [ok |-> TRUE, name |-> SubSeq(s, i + 1, j - 1),
                has_pattern |-> TRUE, pattern |-> SubSeq(s, j, g - 1),
                end |-> g]

\* '(?P<%s>%s)' % (name, regexp)
Segment(name, regexp) ==
  <<"(", "?", "P", "<">> \o name \o <<">">> \o regexp \o <<")">>

\* _replace resolving the fragment it found through the table once more
ReplaceTwice(patterns, default, m) ==
  LET regexp == IF m.has_pattern
                THEN Get(patterns, m.pattern, m.pattern)
                ELSE Get(patterns, m.name, default)
  IN Segment(m.name, Get(patterns, regexp, regexp))

\* _replace reading self.patterns[name] in place of .get(name, default):
\* a KeyError, which is no character, where the name is no key
ReplaceStrict(patterns, default, m) ==
  IF m.has_pattern
  THEN Segment(m.name, Get(patterns, m.pattern, m.pattern))
  ELSE IF m.name \in DOMAIN patterns
       THEN Segment(m.name, patterns[m.name])
       ELSE <<"KeyError">>

\* URLPatternGenerator._replace, on the instance's table and default
Replace(patterns, default, m) ==
  LET regexp == IF m.has_pattern
                THEN Get(patterns, m.pattern, m.pattern)
                ELSE Get(patterns, m.name, default)
  IN Segment(m.name, regexp)

\* VARIABLE.sub(self._replace, url) from index i on
RECURSIVE Sub(_, _, _, _)
Sub(patterns, default, s, i) ==
  IF i > Len(s) THEN <<>>
  ELSE LET m == Match(s, i)
       IN IF m.ok
          THEN Replace(patterns, default, m) \o Sub(patterns, default, s, m.end + 1)
          ELSE <<s[i]>> \o Sub(patterns, default, s, i + 1)

\* the steps with '$' appended before '/' is considered
FinishTerminateFirst(o, kw, url, r0) ==
  LET r1 == IF Get(kw, "anchor", o.anchor) /\ First1(r0) # <<"^">>
            THEN <<"^">> \o r0 ELSE r0
      r2 == IF Get(kw, "terminate", o.terminate) /\ Last1(r1) # <<"$">>
            THEN r1 \o <<"$">> ELSE r1
      r3 == IF url # <<>> /\ Get(kw, "append_slash", o.append_slash)
               /\ Last1(r2) \notin {<<"$">>, <<"/">>}
            THEN r2 \o <<"/">> ELSE r2
  IN r3

\* the steps with '$' appended without a look at the last character
FinishAlwaysTerminates(o, kw, url, r0) ==
  LET r1 == IF Get(kw, "anchor", o.anchor) /\ First1(r0) # <<"^">>
            THEN <<"^">> \o r0 ELSE r0
      r2 == IF url # <<>> /\ Get(kw, "append_slash", o.append_slash)
               /\ Last1(r1) \notin {<<"$">>, <<"/">>}
            THEN r1 \o <<"/">> ELSE r1
      r3 == IF Get(kw, "terminate", o.terminate)
            THEN r2 \o <<"$">> ELSE r2
  IN r3

\* the three steps of regex after the substitution
Finish(o, kw, url, r0) ==
  LET r1 == IF Get(kw, "anchor", o.anchor) /\ First1(r0) # <<"^">>
            THEN <<"^">> \o r0 ELSE r0
      r2 == IF url # <<>> /\ Get(kw, "append_slash", o.append_slash)
               /\ Last1(r1) \notin {<<"$">>, <<"/">>}
            THEN r1 \o <<"/">> ELSE r1
      r3 == IF Get(kw, "terminate", o.terminate) /\ Last1(r2) # <<"$">>
            THEN r2 \o <<"$">> ELSE r2
  IN r3

\* URLPatternGenerator.regex of instance o whose table is `patterns`
Regex(o, patterns, url, kw) ==
  Finish(o, kw, url, Sub(patterns, o.default, url, 1))

\* ------------------------------------------------------------------ inputs

\* all concatenations of at most n strings of P
RECURSIVE Concat(_, _)
Concat(P, n) ==
  IF n = 0 THEN {<<>>}
  ELSE LET prev == Concat(P, n - 1)
       IN prev \cup {p \o t : p \in P, t \in prev}

\* <name> and <name:pattern> as written in a template
Tok(n) == <<"<">> \o n \o <<">">>
TokP(n, p) == <<"<">> \o n \o <<":">> \o p \o <<">">>

\* templates: every string of at most MaxParts pieces, and every two tokens
\* with nothing or a word between them
Pieces == {<<"<">>, <<">">>, <<":">>, s_tag, s_x}
TokenForms ==
  {Tok(n) : n \in {s_tag, s_x}} \cup {TokP(n, p) : n \in {s_tag, s_x}, p \in {s_tag, s_x}}
Pairs == {a \o mid \o b : a \in TokenForms, mid \in {<<>>, s_x}, b \in TokenForms}
Templates == Concat(Pieces, MaxParts) \cup Pairs

OptNames == {"anchor", "append_slash", "terminate"}
\* the **kw of regex: any of the three options, each True or False
Kws == UNION {[S -> BOOLEAN] : S \in SUBSET OptNames}
NoKw == [x \in {} |-> TRUE]
\* regex('foo', anchor=False, terminate=False, append_slash=False)
AllOff == [x \in OptNames |-> FALSE]

\* the names and fragments given to add
AddNames == {s_tag, s_x}
AddFragments == {s_mon, <<>>}
\* the values given to __init__'s `default`
Defaults == {DefaultFragment, <<".", "*">>}

\* ------------------------------------------------------------------- state

VARIABLES
  dicts,  \* the dict objects: identity -> contents
  objs,   \* the URLPatternGenerator instances: identity -> attributes
  call,   \* what the last operation returned, when it was a regex call:
          \* self, url, kw, result (and, for a call made on the result of
          \* the call before, the url of that call)
  op,     \* the last step: "init", "new", "add", "regex" (a call returned),
          \* and of a call that has not returned, "begin" and "replace"
  hist,   \* per instance: the dict given to __init__, the table it started
          \* on, and the latest fragment given to its add, per name
  run     \* a regex call that has not returned: url, kw, the index
          \* VARIABLE.sub has reached, the output so far, and the contents
          \* the table has had since the call began

vars == <<dicts, objs, call, op, hist, run>>

NoCall == [done |-> FALSE, self |-> "", url |-> <<>>, kw |-> NoKw,
           result |-> <<>>, nested |-> FALSE, first |-> <<>>]

NoRun == [active |-> FALSE, url |-> <<>>, kw |-> NoKw, pos |-> 0,
          out |-> <<>>, seen |-> {}]

\* self.patterns of instance i
Table(i) == dicts[objs[i].patterns]

\* ------------------------------------------------------------- operations

\* self.patterns = patterns or dict(PATTERNS.items()): the identity of the
\* table of instance i. arg is the patterns argument: given or None, and the
\* identity of the dict given. An empty dict is false, as None is.
InitPatterns(i, arg) ==
  IF arg.given /\ DOMAIN dicts[arg.ref] # {} THEN arg.ref ELSE i

\* URLPatternGenerator(patterns, default, append_slash, anchor, terminate)
New(i, arg, default, append_slash, anchor, terminate) ==
  /\ i \notin DOMAIN objs
  /\ LET ref == InitPatterns(i, arg)
     IN /\ dicts' = IF ref = i THEN dicts @@ (i :> dicts["PATTERNS"]) ELSE dicts
        /\ objs' = objs @@ (i :> [patterns |-> ref, default |-> default,
                                  append_slash |-> append_slash,
                                  anchor |-> anchor, terminate |-> terminate])
        /\ hist' = hist @@ (i :> [given |-> arg.given,
                                  base |-> dicts'[ref], own |-> NoDict])
  /\ op' = "new"
  /\ call' = NoCall
  /\ UNCHANGED run

\* add as setdefault: a name that is a key keeps its fragment
AddIfAbsent(patterns, name, pattern) ==
  IF name \in DOMAIN patterns THEN patterns ELSE SetItem(patterns, name, pattern)

\* the body of URLPatternGenerator.add / __setitem__
Add(patterns, name, pattern) == SetItem(patterns, name, pattern)

\* i.add(name, pattern), i[name] = pattern
CallAdd(i, name, pattern) ==
  /\ i \in DOMAIN objs
  /\ dicts' = [dicts EXCEPT ![objs[i].patterns] = Add(@, name, pattern)]
  /\ op' = "add"
  /\ hist' = [hist EXCEPT ![i].own =
                [x \in DOMAIN @ \cup {name} |-> IF x = name THEN pattern ELSE @[x]]]
  /\ call' = NoCall
  /\ UNCHANGED <<objs, run>>

\* regex storing the options of the call on the instance
CallRegexStoring(i, url, kw) ==
  /\ i \in DOMAIN objs
  /\ call' = [done |-> TRUE, self |-> i, url |-> url, kw |-> kw,
              result |-> Regex(objs[i], Table(i), url, kw),
              nested |-> FALSE, first |-> <<>>]
  /\ op' = "regex"
  /\ objs' = [objs EXCEPT ![i].anchor = Get(kw, "anchor", @),
                          ![i].append_slash = Get(kw, "append_slash", @),
                          ![i].terminate = Get(kw, "terminate", @)]
  /\ UNCHANGED <<dicts, hist, run>>

\* r = i.regex(url, **kw)
CallRegex(i, url, kw) ==
  /\ i \in DOMAIN objs
  /\ call' = [done |-> TRUE, self |-> i, url |-> url, kw |-> kw,
              result |-> Regex(objs[i], Table(i), url, kw),
              nested |-> FALSE, first |-> <<>>]
  /\ op' = "regex"
  /\ UNCHANGED <<dicts, objs, hist, run>>

\* i.regex(r, **kw) on the r that i.regex(url, **kw) just returned
CallRegexOnResult ==
  /\ call.done /\ ~call.nested
  /\ call' = [call EXCEPT !.url = call.result,
                          !.result = Regex(objs[call.self], Table(call.self),
                                           call.result, call.kw),
                          !.nested = TRUE, !.first = call.url]
  /\ op' = "regex"
  /\ UNCHANGED <<dicts, objs, hist, run>>

\* --------------------------------------------------- the module's instance

\* easyurl = URLPatternGenerator(default=d): the table is a copy of PATTERNS
Init ==
  /\ dicts = ("PATTERNS" :> PATTERNS) @@ ("easyurl" :> PATTERNS)
  /\ \E d \in Defaults :
       objs = ("easyurl" :> [patterns |-> "easyurl", default |-> d,
                             append_slash |-> TRUE, anchor |-> TRUE,
                             terminate |-> TRUE])
  /\ call = NoCall
  /\ op = "init"
  /\ hist = ("easyurl" :> [given |-> FALSE, base |-> PATTERNS, own |-> NoDict])
  /\ run = NoRun

EasyurlAdd ==
  \E name \in AddNames, pattern \in AddFragments :
    CallAdd("easyurl", name, pattern)

\* a call on any template, after the construction or an add
EasyurlRegex ==
  /\ op # "regex"
  /\ \E url \in Templates, kw \in {NoKw, AllOff} : CallRegex("easyurl", url, kw)

\* a call on the template of the call that just returned
EasyurlRegexAgain ==
  /\ op = "regex"
  /\ \E kw \in {NoKw, AllOff} : CallRegex(call.self, call.url, kw)

Next == EasyurlAdd \/ EasyurlRegex \/ EasyurlRegexAgain

Spec == Init /\ [][Next]_vars

\* ------------------------------------------- properties of the one instance

\* (?P<name>fragment), written out
Group(n, f) == <<"(", "?", "P", "<">> \o n \o <<">">> \o f \o <<")">>

\* what easyurl, whose three options are on, makes of a substituted string
\* that begins with '(' and ends with ')'
Wrapped(kw, body) == IF kw = NoKw THEN <<"^">> \o body \o <<"/", "$">> ELSE body

Words == Concat({s_tag, s_x}, 2) \ {<<>>}
PatternTexts == Concat({<<":">>, <<"<">>, s_tag, s_x}, 2) \ {<<>>}
\* a token: its name, and its pattern part if it has one
Tokens ==
  [name : Words, has : {FALSE}, pat : {<<>>}] \cup
  [name : Words, has : {TRUE}, pat : PatternTexts]
PairTokens ==
  [name : {s_tag, s_x}, has : {FALSE}, pat : {<<>>}] \cup
  [name : {s_tag, s_x}, has : {TRUE}, pat : {s_tag, s_x}]
TokenText(d) == IF d.has THEN TokP(d.name, d.pat) ELSE Tok(d.name)

\* the fragment the rule gives token d on table t with default dflt
Chosen(t, dflt, d) ==
  IF d.has THEN (IF d.pat \in DOMAIN t THEN t[d.pat] ELSE d.pat)
  ELSE (IF d.name \in DOMAIN t THEN t[d.name] ELSE dflt)

\* C1: the group of a token holds the table's fragment for its pattern part
\* if that is a key, else the pattern part itself; without a pattern part,
\* the table's fragment for its name if that is a key, else the default.
\* The fragment is put in as it is, also when it is itself a key.
C1_FragmentChoice ==
  (call.done /\ ~call.nested /\ call.url # <<>> /\ call.url[1] = "<") =>
    LET t == Table(call.self)
        dflt == objs[call.self].default
        G(d) == Group(d.name, Chosen(t, dflt, d))
    IN /\ \A d \in Tokens :
            call.url = TokenText(d) => call.result = Wrapped(call.kw, G(d))
       /\ \A a \in PairTokens, b \in PairTokens, mid \in {<<>>, s_x} :
            call.url = TokenText(a) \o mid \o TokenText(b)
              => call.result = Wrapped(call.kw, G(a) \o mid \o G(b))

\* <x:tag> after add('tag', 'mon'): the group holds mon, not mon's fragment
C1_Witness ==
  /\ call.done
  /\ call.url = TokP(s_x, s_tag)
  /\ Table("easyurl")[s_tag] = s_mon
  /\ call.result = <<"^", "(", "?", "P", "<", "x", ">", "m", "o", "n", ")", "/", "$">>

\* the latest fragment given to add for key k, or the one the table started with
Latest(h, k) == IF k \in DOMAIN h.own THEN h.own[k] ELSE h.base[k]

\* C4: the table holds, for each key, the fragment of the latest add for it,
\* or the fragment it started with if there was none, and a call on <key> or
\* <name:key> returns the group of that fragment.
C4_LastWriteWins ==
  /\ \A i \in DOMAIN objs :
       /\ DOMAIN Table(i) = DOMAIN hist[i].base \cup DOMAIN hist[i].own
       /\ \A k \in DOMAIN Table(i) : Table(i)[k] = Latest(hist[i], k)
  /\ (call.done /\ ~call.nested) =>
       \A k \in DOMAIN hist[call.self].base \cup DOMAIN hist[call.self].own :
         /\ call.url = Tok(k)
              => call.result = Wrapped(call.kw, Group(k, Latest(hist[call.self], k)))
         /\ \A n \in {s_tag, s_x} :
              call.url = TokP(n, k)
                => call.result = Wrapped(call.kw, Group(n, Latest(hist[call.self], k)))

\* <tag> after add('tag', '') and an add for x: the group is empty
C4_Witness ==
  /\ call.done
  /\ call.url = Tok(s_tag)
  /\ s_x \in DOMAIN hist["easyurl"].own
  /\ s_tag \in DOMAIN hist["easyurl"].own
  /\ call.result = <<"^", "(", "?", "P", "<", "t", "a", "g", ">", ")", "/", "$">>

\* C5: a regex call leaves the dicts and the instances as they were; a call
\* made again with the same template and options returns the same string; and
\* a call without options on easyurl is anchored and terminated whatever the
\* call before passed.
C5_RegexLeavesInstance ==
  [][op' = "regex" =>
       /\ dicts' = dicts
       /\ objs' = objs
       /\ (call.done /\ call'.self = call.self /\ call'.url = call.url
             /\ call'.kw = call.kw) => call'.result = call.result
       /\ call'.kw = NoKw =>
            (First1(call'.result) = <<"^">> /\ Last1(call'.result) = <<"$">>)]_vars

\* a call with all three options off returned, and easyurl's are still on
C5_Witness ==
  /\ call.done
  /\ call.kw = AllOff
  /\ call.url = Tok(s_x)
  /\ call.result = Group(s_x, objs["easyurl"].default)
  /\ objs["easyurl"].anchor /\ objs["easyurl"].append_slash
  /\ objs["easyurl"].terminate

Chars ==
  Lower \cup Upper \cup Digit \cup
  {"_", "<", ">", ":", "(", ")", "?", "\\", "+", "*", ".", "[", "]", "{", "}",
   "-", ",", "^", "/", "$"}

\* no index of s has a token of VARIABLE
TokenFree(s) == \A i \in 1..Len(s) : ~Match(s, i).ok

\* C7: every regex call returns a string, never an error: with a name or a
\* pattern that is no key, with empty fragments, with angle-bracket text
\* that is no token (which comes back as it is).
C7_RegexReturnsString ==
  call.done =>
    /\ \A i \in 1..Len(call.result) : call.result[i] \in Chars
    /\ (call.kw = AllOff /\ TokenFree(call.url)) => call.result = call.url
    /\ (call.kw = AllOff /\ call.url = Tok(s_x) /\ s_x \notin DOMAIN Table(call.self))
         => call.result = Group(s_x, objs[call.self].default)

\* '<tag><' with an empty fragment for tag
C7_Witness ==
  /\ call.done
  /\ call.url = <<"<", "t", "a", "g", ">", "<">>
  /\ Table("easyurl")[s_tag] = <<>>
  /\ call.result = <<"^", "(", "?", "P", "<", "t", "a", "g", ">", ")", "<", "/", "$">>

\* the token of the documented grammar at index i of s: <name> or
\* <name:pattern>, name of word characters, pattern of characters other
\* than '>', neither empty
GrammarMatch(s, i) ==
  IF i > Len(s) \/ s[i] # "<" THEN NoMatch
  ELSE LET j == WordEnd(s, i + 1)
           g == CloseAt(s, j + 1)
       IN IF j = i + 1 \/ j > Len(s) THEN NoMatch
          ELSE IF s[j] = ">"
               THEN [ok |-> TRUE, name |-> SubSeq(s, i + 1, j - 1),
                     has_pattern |-> FALSE, pattern |-> <<>>, end |-> j]
          ELSE IF s[j] = ":" /\ g > j + 1 /\ g <= Len(s)
               THEN [ok |-> TRUE, name |-> SubSeq(s, i + 1, j - 1),
                     has_pattern |-> TRUE, pattern |-> SubSeq(s, j + 1, g - 1),
                     end |-> g]
          ELSE NoMatch

RECURSIVE GrammarSub(_, _, _, _)
GrammarSub(patterns, default, s, i) ==
  IF i > Len(s) THEN <<>>
  ELSE LET m == GrammarMatch(s, i)
       IN IF m.ok
          THEN Replace(patterns, default, m)
                 \o GrammarSub(patterns, default, s, m.end + 1)
          ELSE <<s[i]>> \o GrammarSub(patterns, default, s, i + 1)

\* C3: regex replaces the tokens of the grammar <name> or <name:pattern> and
\* nothing else; every other character comes back unchanged and in order.
C3_OnlyGrammarTokens ==
  (call.done /\ ~call.nested) =>
    call.result = Finish(objs[call.self], call.kw, call.url,
                         GrammarSub(Table(call.self), objs[call.self].default,
                                    call.url, 1))

\* ------------------------------------------------ instances of any options

\* templates of the characters the three steps look at, and a token
CfgPieces == {<<"^">>, <<"/">>, <<"$">>, s_x, Tok(s_x)}
CfgTemplates == Concat(CfgPieces, MaxCfgParts)

NoObjs == [x \in {} |-> 0]
\* patterns=None
None == [given |-> FALSE, ref |-> ""]

InitCfg ==
  /\ dicts = ("PATTERNS" :> PATTERNS)
  /\ objs = NoObjs
  /\ call = NoCall
  /\ op = "init"
  /\ hist = NoObjs
  /\ run = NoRun

\* g = URLPatternGenerator(append_slash=a, anchor=b, terminate=c)
CfgNew ==
  \E a \in BOOLEAN, b \in BOOLEAN, c \in BOOLEAN :
    New("g", None, DefaultFragment, a, b, c)

CfgRegex ==
  /\ op # "regex"
  /\ \E url \in CfgTemplates, kw \in Kws : CallRegex("g", url, kw)

NextCfg == CfgNew \/ CfgRegex \/ CallRegexOnResult

SpecCfg == InitCfg /\ [][NextCfg]_vars

\* the option of the call if it gives one, else the instance's
Option(o, kw, name) ==
  IF name \in DOMAIN kw THEN kw[name]
  ELSE IF name = "anchor" THEN o.anchor
  ELSE IF name = "append_slash" THEN o.append_slash
  ELSE o.terminate

\* C2: the result is the substituted string (the template itself when it has
\* no token) with '^' put in front iff anchoring is on and it does not start
\* with '^', then '/' put behind iff the separator option is on, the template
\* is not empty and the string ends in neither '$' nor '/', then '$' put
\* behind iff terminating is on and the string does not end in '$'; each
\* option is the call's if the call gives it, else the instance's.
C2_AnchorSlashTerminate ==
  (call.done /\ ~call.nested) =>
    LET o == objs[call.self]
        r0 == IF TokenFree(call.url) THEN call.url
              ELSE Sub(Table(call.self), o.default, call.url, 1)
        a == IF Option(o, call.kw, "anchor") /\ (r0 = <<>> \/ r0[1] # "^")
             THEN <<"^">> ELSE <<>>
        r1 == a \o r0
        b == IF Option(o, call.kw, "append_slash") /\ Len(call.url) > 0
                /\ (r1 = <<>> \/ (r1[Len(r1)] # "$" /\ r1[Len(r1)] # "/"))
             THEN <<"/">> ELSE <<>>
        r2 == r1 \o b
        c == IF Option(o, call.kw, "terminate") /\ (r2 = <<>> \/ r2[Len(r2)] # "$")
             THEN <<"$">> ELSE <<>>
    IN /\ call.result = a \o r0 \o b \o c
       /\ (call.url = <<>> /\ Option(o, call.kw, "anchor")
             /\ Option(o, call.kw, "terminate")) => call.result = <<"^", "$">>
       /\ (TokenFree(call.url) /\ ~Option(o, call.kw, "anchor")
             /\ ~Option(o, call.kw, "append_slash")
             /\ ~Option(o, call.kw, "terminate")) => call.result = call.url

\* anchor=True given to an instance made with anchor=False: 'x' gives '^x/$'
C2_Witness ==
  /\ call.done /\ ~call.nested
  /\ ~objs["g"].anchor /\ objs["g"].append_slash /\ objs["g"].terminate
  /\ call.kw = ("anchor" :> TRUE)
  /\ call.url = s_x
  /\ call.result = <<"^", "x", "/", "$">>

\* C10 as it was stated: for a template without tokens and any options,
\* regex of the result of regex is that result.
C10_TwiceIsOnce ==
  (call.done /\ call.nested /\ TokenFree(call.first)) => call.result = call.url

\* C10: for a template without tokens, regex of the result of regex is that
\* result, unless the template is empty, anchor and append_slash are on and
\* terminate is off (regex('') is then '^', and regex('^') is '^/').
C10_TwiceIsOnceButEmpty ==
  (call.done /\ call.nested /\ TokenFree(call.first)
     /\ ~(call.first = <<>>
            /\ Option(objs[call.self], call.kw, "anchor")
            /\ Option(objs[call.self], call.kw, "append_slash")
            /\ ~Option(objs[call.self], call.kw, "terminate")))
    => call.result = call.url

\* regex('x') gave '^x/$', and regex('^x/$') gave it again
C10_Witness ==
  /\ call.done /\ call.nested
  /\ call.first = s_x
  /\ call.url = <<"^", "x", "/", "$">>
  /\ call.result = <<"^", "x", "/", "$">>

\* ------------------------------------------- two instances, a caller's dict

\* the dict the caller gives to __init__
ArgTables == {NoDict, (s_x :> s_mon)}
NewTemplates == TokenForms \cup {<<>>, s_x}

InitNew ==
  /\ \E d \in ArgTables : dicts = ("PATTERNS" :> PATTERNS) @@ ("arg" :> d)
  /\ objs = NoObjs
  /\ call = NoCall
  /\ op = "init"
  /\ hist = NoObjs
  /\ run = NoRun

\* A = URLPatternGenerator() or URLPatternGenerator(arg), and B likewise
InstNew ==
  \E i \in {"A", "B"}, arg \in {None, [given |-> TRUE, ref |-> "arg"]} :
    New(i, arg, DefaultFragment, TRUE, TRUE, TRUE)

InstAdd ==
  \E i \in DOMAIN objs, name \in AddNames, pattern \in AddFragments :
    CallAdd(i, name, pattern)

InstRegex ==
  /\ op # "regex"
  /\ \E i \in DOMAIN objs, url \in NewTemplates : CallRegex(i, url, NoKw)

NextNew == InstNew \/ InstAdd \/ InstRegex

SpecNew == InitNew /\ [][NextNew]_vars

\* the table an instance has if only its own adds have changed it
OwnTable(h) == [k \in DOMAIN h.base \cup DOMAIN h.own |-> Latest(h, k)]

\* C6: the table of an instance is the one it started on with its own adds
\* made, whatever was added through another instance; its regex calls return
\* what that table gives; and the module's PATTERNS stays as written.
C6_IndependentTables ==
  /\ dicts["PATTERNS"] = PATTERNS
  /\ \A i \in DOMAIN objs : Table(i) = OwnTable(hist[i])
  /\ call.done =>
       call.result = Regex(objs[call.self], OwnTable(hist[call.self]),
                           call.url, call.kw)

\* C9: on an instance made with a dict of the caller, a token <name> whose
\* name is no key of that dict gets the default fragment, also when the dict
\* is empty: the fragments of PATTERNS are used only when no dict was given.
C9_SuppliedTableOnly ==
  (call.done /\ hist[call.self].given) =>
    \A n \in {s_tag, s_x} :
      (call.url = Tok(n) /\ n \notin DOMAIN dicts["arg"])
        => call.result = Wrapped(NoKw, Group(n, objs[call.self].default))

\* ------------------------------------------- add during a call of regex

ConcTemplates == TokenForms \cup Pairs

\* the first index >= i of s where VARIABLE matches (0 if none)
RECURSIVE NextMatch(_, _)
NextMatch(s, i) ==
  IF i > Len(s) THEN 0
  ELSE IF Match(s, i).ok THEN i ELSE NextMatch(s, i + 1)

\* easyurl.regex(url) is called: VARIABLE.sub starts at the first character
ConcBegin ==
  /\ ~run.active
  /\ \E url \in ConcTemplates :
       run' = [active |-> TRUE, url |-> url, kw |-> NoKw, pos |-> 1,
               out |-> <<>>, seen |-> {Table("easyurl")}]
  /\ call' = NoCall
  /\ op' = "begin"
  /\ UNCHANGED <<dicts, objs, hist>>

\* VARIABLE.sub copies the text up to the next token and calls _replace on
\* it, which reads the table as it is now
ConcReplace ==
  /\ run.active
  /\ NextMatch(run.url, run.pos) # 0
  /\ LET k == NextMatch(run.url, run.pos)
         m == Match(run.url, k)
     IN run' = [run EXCEPT
                  !.out = @ \o SubSeq(run.url, run.pos, k - 1)
                            \o Replace(Table("easyurl"), objs["easyurl"].default, m),
                  !.pos = m.end + 1]
  /\ op' = "replace"
  /\ UNCHANGED <<dicts, objs, call, hist>>

\* no token is left: the rest is copied, the three steps are made, regex returns
ConcReturn ==
  /\ run.active
  /\ NextMatch(run.url, run.pos) = 0
  /\ call' = [done |-> TRUE, self |-> "easyurl", url |-> run.url, kw |-> run.kw,
              result |-> Finish(objs["easyurl"], run.kw, run.url,
                                run.out \o SubSeq(run.url, run.pos, Len(run.url))),
              nested |-> FALSE, first |-> <<>>]
  /\ run' = [run EXCEPT !.active = FALSE]
  /\ op' = "regex"
  /\ UNCHANGED <<dicts, objs, hist>>

\* another thread calls easyurl.add(name, pattern), between two steps of a
\* regex call or outside one
ConcAdd ==
  \E name \in {s_tag}, pattern \in AddFragments :
    /\ dicts' = [dicts EXCEPT !["easyurl"] = Add(@, name, pattern)]
    /\ hist' = [hist EXCEPT !["easyurl"].own =
                  [x \in DOMAIN @ \cup {name} |-> IF x = name THEN pattern ELSE @[x]]]
    /\ run' = IF run.active
              THEN [run EXCEPT !.seen = @ \cup {dicts'["easyurl"]}]
              ELSE run
    /\ call' = IF run.active THEN call ELSE NoCall
    /\ op' = "add"
    /\ UNCHANGED objs

NextConc == ConcBegin \/ ConcReplace \/ ConcReturn \/ ConcAdd

SpecConc == Init /\ [][NextConc]_vars

\* C8: a regex call that runs while add is called returns what the template
\* gives on the table as it was at one point of the call: at its start or
\* after one of the adds.
C8_ConsistentSnapshot ==
  (call.done /\ ~run.active /\ op = "regex") =>
    \E t \in run.seen :
      call.result = Regex(objs["easyurl"], t, call.url, call.kw)

====
